---- MODULE Spec2Model ----
(***************************************************************************)
(* A model of the subscription and quota accounting of                     *)
(* cyverse-de/subscriptions: the subscriptions, quotas, usages, addons and *)
(* subscription_addons tables, Database.SetActiveSubscription,             *)
(* Database.GetActiveSubscription, Database.UserHasActivePlan,             *)
(* Database.LoadSubscriptionDetails, the overage listing, and the usage    *)
(* and add-on request handlers.                                            *)
(*                                                                         *)
(* Timestamps are integers; the SQL NULL of effective_end_date is NULL.    *)
(* The application clock (time.Now) and the database clock                 *)
(* (CURRENT_TIMESTAMP) are the one variable now.  Row IDs (UUIDs generated *)
(* by the database) are the positive integers; Go's empty string ID is     *)
(* EmptyID.  float64 quantities take integer values only.                  *)
(***************************************************************************)
EXTENDS Integers, Sequences, FiniteSets, TLC

VARIABLES now, planRates, planQuotaDefaults, subscriptions, quotas, usages,
          result, applied, pc, req, addons, subscriptionAddons, tx, call

vars == <<now, planRates, planQuotaDefaults, subscriptions, quotas, usages,
          result, applied, pc, req, addons, subscriptionAddons, tx, call>>

---------------------------------------------------------------------------
(* Bounds of the model. *)

MaxTime == 2
MaxSubs == 2
MaxPeriods == 2
MaxQuota == 2
MaxAmount == 2
MaxUpdates == 2
NumWorkers == 2
MaxAddons == 2
MaxAttached == 2
MaxRates == 2

---------------------------------------------------------------------------
(* Reference data. *)

NULL == -1

EmptyID == 0

Times == 0..MaxTime

\* The users table: a user is identified by its username (the join of
\* subscriptions.user_id with users.id is folded into the name).
Users == {"u1", "u2"}

DefaultPlanName == "Basic"

\* The update_operations table holds the rows named by UpdateOperationNames.
UpdateOperationNames == <<"ADD", "SET">>

UpdateTypeSet == "SET"

UpdateTypeAdd == "ADD"

\* The resource_types table: ResourceTypeNames[i] has unit ResourceTypeUnits[i].
ResourceTypeNames == <<"cpu.hours", "data.size">>

ResourceTypeUnits == <<"cpu hours", "bytes">>

\* resource_types.consumable, read by the quota-default queries: cpu.hours is
\* the consumable resource type, data.size the capacity one.
Consumable(name) == name = "cpu.hours"

\* The i-th row of resource_types; its ID is its name.
ResourceTypeRow(i) ==
    [ID |-> ResourceTypeNames[i], Name |-> ResourceTypeNames[i],
     Unit |-> ResourceTypeUnits[i], Consumable |-> Consumable(ResourceTypeNames[i])]

Range(s) == {s[i] : i \in DOMAIN s}

---------------------------------------------------------------------------
(* Requests in progress.  A handler or a database call waits for the       *)
(* database at every statement it executes, and the statements of other    *)
(* requests run in between: pc[w] is the position of the request the       *)
(* worker w handles, req[w] holds its local variables.  A worker at        *)
(* "idle" or at "done" handles none and takes the next request, whatever   *)
(* its kind: "done" is "idle" after the answer to a usage update.          *)

Workers == 1..NumWorkers

\* The worker handles no request.
IdleReq == [op |-> "idle"]

---------------------------------------------------------------------------
(* Plans: plan_rates and plan_quota_defaults, loaded into a Plan value. *)

\* The Plan value a caller loads and hands to SetActiveSubscription.
LoadPlan == [ID |-> DefaultPlanName, Name |-> DefaultPlanName,
             Rates |-> planRates, QuotaDefaults |-> planQuotaDefaults]

NilRate == [ID |-> EmptyID, EffectiveDate |-> NULL]

\* Plan.GetActiveRate: the rate with the greatest effective_date <= now, nil
\* when there is none.
GetActiveRate(plan, ts) ==
    LET eff == {r \in plan.Rates : r.EffectiveDate <= ts}
    IN IF eff = {} THEN NilRate
       ELSE CHOOSE r \in eff : \A q \in eff : q.EffectiveDate <= r.EffectiveDate

\* Plan.GetActiveQuotaDefaults: every quota default of the plan.
GetActiveQuotaDefaults(plan) == plan.QuotaDefaults

---------------------------------------------------------------------------
(* Database.SetActiveSubscription *)

NoRateAlways(activePlanRate) == FALSE

\* activePlanRate == nil
NoEffectiveRate(activePlanRate) == activePlanRate = NilRate

QuotaValueOnce(quotaDefault, periods) == quotaDefault.QuotaValue * periods

\* The quota of one quota default: multiplied by the periods, and once more
\* for a consumable resource type.
QuotaValue(quotaDefault, periods) ==
    LET quotaValue == quotaDefault.QuotaValue * periods
    IN IF quotaDefault.ResourceType.Consumable
       THEN quotaValue * periods
       ELSE quotaValue

\* The row of the insert into subscriptions; id is the RETURNING id.
SubscriptionRow(id, userID, plan, subscriptionOpts, activePlanRate, n) ==
    [ID |-> id,
     EffectiveStartDate |-> n,
     EffectiveEndDate |-> subscriptionOpts.EndDate,
     User |-> userID,
     PlanID |-> plan.ID,
     Paid |-> subscriptionOpts.Paid,
     PlanRateID |-> activePlanRate.ID]

QuotaRowFirstSubscription(subscriptionID, quotaDefault, periods) ==
    [ResourceTypeID |-> quotaDefault.ResourceType.ID,
     SubscriptionID |-> 1,
     Quota |-> QuotaValue(quotaDefault, periods)]

\* The row of the insert into quotas for one quota default.
QuotaRow(subscriptionID, quotaDefault, periods) ==
    [ResourceTypeID |-> quotaDefault.ResourceType.ID,
     SubscriptionID |-> subscriptionID,
     Quota |-> QuotaValue(quotaDefault, periods)]

\* The quota rows of the first k quota defaults, in the order of the loop.
QuotaRows(subscriptionID, defaults, periods, k) ==
    [i \in 1..k |-> QuotaRow(subscriptionID, defaults[i], periods)]

\* What a step that does not end its call leaves in result.
Running(name) == [op |-> "running", of |-> name]

\* The caller of SetActiveSubscription loads the plan, with its rates and its
\* quota defaults, before the call.
GetPlan(w) ==
    /\ pc[w] \in {"idle", "done"}
    /\ pc' = [pc EXCEPT ![w] = "plan"]
    /\ req' = [req EXCEPT ![w] = [op |-> "GetPlan", plan |-> LoadPlan]]
    /\ result' = Running("GetPlan")
    /\ UNCHANGED <<now, planRates, planQuotaDefaults, subscriptions, quotas,
                   usages, applied, addons, subscriptionAddons, tx, call>>

\* The values SetActiveSubscription returns: the ID and the error.  failAt is
\* the number of the insert into quotas that failed, 0 when none did.
SetActiveSubscriptionReturn(userID, plan, subscriptionOpts, failAt, id, err) ==
    [op |-> "SetActiveSubscription", user |-> userID, plan |-> plan,
     opts |-> subscriptionOpts, failAt |-> failAt, id |-> id, err |-> err]

QuotaInsertFailedNoID(subscriptionID) == EmptyID

\* return subscriptionID, err : the ID that goes with the error of a failed
\* insert into quotas.
QuotaInsertFailed(subscriptionID) == subscriptionID

\* Lines 116-149: the active rate of the plan, then the insert into
\* subscriptions, a statement of its own on the handle of the call.  The
\* loop over the quota defaults follows, one statement per pass; with no
\* quota default the call returns at once.  subErr: the insert fails.
SetActiveSubscriptionInsert(w, userID, plan, subscriptionOpts, subErr) ==
    LET n == now
        activePlanRate == GetActiveRate(plan, n)
        subscriptionID == Len(subscriptions) + 1
        defaults == GetActiveQuotaDefaults(plan)
        Return(id, err) ==
            SetActiveSubscriptionReturn(userID, plan, subscriptionOpts, 0, id, err)
        Returns(id, err) ==
            /\ result' = Return(id, err)
            /\ pc' = [pc EXCEPT ![w] = "idle"]
            /\ req' = [req EXCEPT ![w] = IdleReq]
    IN /\ pc[w] \in {"idle", "done", "plan"}
       /\ Len(subscriptions) < MaxSubs
       /\ IF NoEffectiveRate(activePlanRate)
          THEN /\ Returns(EmptyID, "NoEffectiveRate")
               /\ UNCHANGED subscriptions
          ELSE IF subErr
          THEN /\ Returns(EmptyID, "db")
               /\ UNCHANGED subscriptions
          ELSE /\ subscriptions' = Append(subscriptions,
                      SubscriptionRow(subscriptionID, userID, plan,
                                      subscriptionOpts, activePlanRate, n))
               /\ IF Len(defaults) = 0
                  THEN Returns(subscriptionID, "nil")
                  ELSE /\ pc' = [pc EXCEPT ![w] = "quotas"]
                       /\ req' = [req EXCEPT ![w] =
                                    [op |-> "SetActiveSubscription",
                                     user |-> userID, plan |-> plan,
                                     opts |-> subscriptionOpts,
                                     id |-> subscriptionID, k |-> 0]]
                       /\ result' = Running("SetActiveSubscription")
       /\ UNCHANGED <<now, planRates, planQuotaDefaults, quotas, usages, applied,
                      addons, subscriptionAddons, tx, call>>

\* Lines 152-179: one pass of the loop, the insert into quotas for the next
\* quota default, a statement of its own; after the last pass the call
\* returns the ID.  insertErr: the insert fails, and the call returns the ID
\* and the error with the rows it has written left in place.
SetActiveSubscriptionQuota(w, insertErr) ==
    LET c == req[w]
        defaults == GetActiveQuotaDefaults(c.plan)
        k == c.k + 1
        Returns(failAt, id, err) ==
            /\ result' = SetActiveSubscriptionReturn(c.user, c.plan, c.opts,
                                                     failAt, id, err)
            /\ pc' = [pc EXCEPT ![w] = "idle"]
            /\ req' = [req EXCEPT ![w] = IdleReq]
    IN /\ pc[w] = "quotas"
       /\ IF insertErr
          THEN /\ Returns(k, QuotaInsertFailed(c.id), "db")
               /\ UNCHANGED quotas
          ELSE /\ quotas' = Append(quotas,
                                   QuotaRow(c.id, defaults[k], c.opts.Periods))
               /\ IF k = Len(defaults)
                  THEN Returns(0, c.id, "nil")
                  ELSE /\ req' = [req EXCEPT ![w].k = k]
                       /\ result' = Running("SetActiveSubscription")
                       /\ UNCHANGED pc
       /\ UNCHANGED <<now, planRates, planQuotaDefaults, subscriptions, usages,
                      applied, addons, subscriptionAddons, tx, call>>

\* The plan's rows of plan_quota_defaults are replaced by an administrator.
UpdateQuotaDefaults(defaults) ==
    /\ defaults # planQuotaDefaults
    /\ planQuotaDefaults' = defaults
    /\ result' = [op |-> "UpdateQuotaDefaults"]
    /\ UNCHANGED <<now, planRates, subscriptions, quotas, usages, applied, pc,
                   req, addons, subscriptionAddons, tx, call>>

---------------------------------------------------------------------------
(* Database.GetActiveSubscription and Database.UserHasActivePlan *)

\* SQL  x BETWEEN lo AND hi : both ends included, not true when an end is NULL.
BetweenNoUpper(x, lo, hi) == lo # NULL /\ hi # NULL /\ x >= lo

BetweenNoLower(x, lo, hi) == lo # NULL /\ hi # NULL /\ x <= hi

Between(x, lo, hi) == lo # NULL /\ hi # NULL /\ x >= lo /\ x <= hi

\* The Or(...) of the Where clause: the row is active at the timestamp ts.
ActiveAt(s, ts) ==
    \/ Between(ts, s.EffectiveStartDate, s.EffectiveEndDate)
    \/ (ts > s.EffectiveStartDate /\ s.EffectiveEndDate = NULL)

\* subscriptionDS: subscriptions joined with users, plans and plan_rates.
subscriptionDS ==
    {s \in Range(subscriptions) :
        /\ s.User \in Users
        /\ s.PlanID = DefaultPlanName
        /\ \E r \in planRates : r.ID = s.PlanRateID}

\* The rows the Where clause of GetActiveSubscription keeps.
ActiveRows(username, ts) ==
    {s \in subscriptionDS : s.User = username /\ ActiveAt(s, ts)}

OrderAscLimit1(rows) ==
    {s \in rows : \A t \in rows : s.EffectiveStartDate <= t.EffectiveStartDate}

\* Order(effStartDate.Desc()).Limit(1): the rows that can come first.
OrderDescLimit1(rows) ==
    {s \in rows : \A t \in rows : t.EffectiveStartDate <= s.EffectiveStartDate}

\* The zero value of the Subscription struct.
ZeroSubscription ==
    [ID |-> EmptyID, EffectiveStartDate |-> NULL, EffectiveEndDate |-> NULL,
     User |-> "", PlanID |-> "", Paid |-> FALSE, PlanRateID |-> EmptyID]

\* The (*Subscription, error) values the call can return: isNil is the nil
\* pointer.  The found flag of ScanStructContext is dropped by the code.
GetActiveSubscriptionReturns(username, ts, dbErr) ==
    LET first == OrderDescLimit1(ActiveRows(username, ts))
    IN IF dbErr
       THEN {[sub |-> [isNil |-> TRUE, val |-> ZeroSubscription], err |-> "db"]}
       ELSE IF first = {}
       THEN {[sub |-> [isNil |-> FALSE, val |-> ZeroSubscription], err |-> "nil"]}
       ELSE {[sub |-> [isNil |-> FALSE, val |-> s], err |-> "nil"] : s \in first}

GetActiveSubscription(username, dbErr) ==
    /\ \E r \in GetActiveSubscriptionReturns(username, now, dbErr) :
          result' = [op |-> "GetActiveSubscription", user |-> username,
                     sub |-> r.sub, err |-> r.err]
    /\ UNCHANGED <<now, planRates, planQuotaDefaults, subscriptions, quotas,
                   usages, applied, pc, req,
                   addons, subscriptionAddons, tx, call>>

\* The rows UserHasActivePlan counts: subscriptions joined with users.
ActivePlanRows(username, ts) ==
    {s \in Range(subscriptions) :
        s.User \in Users /\ s.User = username /\ ActiveAt(s, ts)}

\* dbErr: the count query fails, and the call returns false with the error.
UserHasActivePlan(username, dbErr) ==
    /\ result' = IF dbErr
                 THEN [op |-> "UserHasActivePlan", user |-> username,
                       has |-> FALSE, err |-> "db"]
                 ELSE [op |-> "UserHasActivePlan", user |-> username,
                       has |-> Cardinality(ActivePlanRows(username, now)) > 0,
                       err |-> "nil"]
    /\ UNCHANGED <<now, planRates, planQuotaDefaults, subscriptions, quotas,
                   usages, applied, pc, req,
                   addons, subscriptionAddons, tx, call>>

\* Time passes.
Tick ==
    /\ now < MaxTime
    /\ now' = now + 1
    /\ result' = [op |-> "Tick"]
    /\ UNCHANGED <<planRates, planQuotaDefaults, subscriptions, quotas, usages,
                   applied, pc, req,
                   addons, subscriptionAddons, tx, call>>

---------------------------------------------------------------------------
(* The usage ledger: App.AddUsageHandler and App.GetUsagesHandler *)

\* querySettings: a call runs on the transaction of its WithTX option, on
\* the database handle (each statement on its own) when it has none.
QuerySettings(withTX) == IF withTX THEN "tx" ELSE "db"

\* App.FixUsername: the username the database knows; an empty one is an error.
FixUsername(username) ==
    [name |-> username, err |-> IF username = "" THEN "InvalidUsername" ELSE "nil"]

\* Database.GetOperationID: the id of the named row of update_operations.
GetOperationID(name) ==
    IF \E i \in DOMAIN UpdateOperationNames : UpdateOperationNames[i] = name
    THEN [id |-> name, err |-> "nil"]
    ELSE [id |-> "", err |-> "InvalidUpdateOperation"]

\* Database.GetResourceTypeID: the id of the resource type of that name and unit.
GetResourceTypeID(name, unit) ==
    IF \E i \in DOMAIN ResourceTypeNames :
          ResourceTypeNames[i] = name /\ ResourceTypeUnits[i] = unit
    THEN [id |-> name, err |-> "nil"]
    ELSE [id |-> "", err |-> "UnknownResourceType"]

\* The usage rows of one (subscription, resource type).
UsageRowsOf(rows, subscriptionID, resourceTypeID) ==
    {u \in rows : u.SubscriptionID = subscriptionID
                  /\ u.ResourceTypeID = resourceTypeID}

\* Database.CalculateUsage, the value to store: the amount when there is no
\* row yet, else the row's value plus the amount for ADD, the amount for SET.
NewUsageValue(updateType, amount, existing) ==
    IF existing = {} THEN amount
    ELSE IF updateType = UpdateTypeAdd
         THEN (CHOOSE u \in existing : TRUE).Usage + amount
         ELSE amount

\* Database.CalculateUsage, the write: the row of the pair is created or updated.
UpsertUsage(rows, subscriptionID, resourceTypeID, value) ==
    (rows \ UsageRowsOf(rows, subscriptionID, resourceTypeID))
    \cup {[SubscriptionID |-> subscriptionID, ResourceTypeID |-> resourceTypeID,
           Usage |-> value]}

\* Database.SubscriptionUsages
SubscriptionUsages(subscriptionID) ==
    {u \in usages : u.SubscriptionID = subscriptionID}

NewUsageNoValue(request, subscription, resourceID) ==
    [Usage |-> 0,
     SubscriptionID |-> subscription.ID,
     ResourceType |-> [ID |-> resourceID, Name |-> request.ResourceName,
                       Unit |-> request.ResourceUnit]]

\* The db.Usage the handler hands to CalculateUsage.
NewUsage(request, subscription, resourceID) ==
    [Usage |-> request.UsageValue,
     SubscriptionID |-> subscription.ID,
     ResourceType |-> [ID |-> resourceID, Name |-> request.ResourceName,
                       Unit |-> request.ResourceUnit]]

\* sendError: one reply that carries the error.
SendError(err) == <<[error |-> err]>>

\* The handler returns: what it replied, and the handles its database calls
\* ran on.
AddUsageReturns(w, c, replies, err) ==
    /\ result' = [op |-> "AddUsageHandler", request |-> c.request,
                  handles |-> c.handles, replies |-> replies, err |-> err]
    /\ pc' = [pc EXCEPT ![w] = "done"]
    /\ req' = [req EXCEPT ![w] = IdleReq]

\* Lines 76-110: FixUsername, then d.GetActiveSubscription on the handle of
\* db.New(a.db).  getErr: the query fails.
AddUsageBegin(w, request, getErr) ==
    LET fixed == FixUsername(request.Username)
        c == [op |-> "AddUsageHandler", request |-> request, handles |-> <<>>]
        called == [c EXCEPT !.handles = <<QuerySettings(FALSE)>>]
    IN /\ pc[w] \in {"idle", "done"}
       /\ IF fixed.err # "nil"
          THEN AddUsageReturns(w, c, SendError(fixed.err), fixed.err)
          ELSE \E active \in GetActiveSubscriptionReturns(fixed.name, now, getErr) :
                  IF active.err # "nil"
                  THEN AddUsageReturns(w, called, SendError(active.err), active.err)
                  ELSE /\ pc' = [pc EXCEPT ![w] = "operation"]
                       /\ req' = [req EXCEPT ![w] =
                                    called @@ [subscription |-> active.sub.val]]
                       /\ result' = Running("AddUsageHandler")
       /\ UNCHANGED <<now, planRates, planQuotaDefaults, subscriptions, quotas,
                      usages, applied, addons, subscriptionAddons, tx, call>>

OperationRejectedNever(found) == FALSE

\* if _, err = d.GetOperationID(ctx, request.UpdateType); err != nil
OperationRejected(found) == found.err # "nil"

\* Lines 112-116: the update type is validated.
AddUsageOperationID(w) ==
    /\ pc[w] = "operation"
    /\ LET c == [req[w] EXCEPT !.handles = Append(@, QuerySettings(FALSE))]
           found == GetOperationID(c.request.UpdateType)
       IN IF OperationRejected(found)
          THEN AddUsageReturns(w, c, SendError(found.err), found.err)
          ELSE /\ pc' = [pc EXCEPT ![w] = "resource"]
               /\ req' = [req EXCEPT ![w] = c]
               /\ result' = Running("AddUsageHandler")
    /\ UNCHANGED <<now, planRates, planQuotaDefaults, subscriptions, quotas,
                   usages, applied, addons, subscriptionAddons, tx, call>>

\* Lines 118-132: the resource type is looked up, then the usage is built.
AddUsageResourceTypeID(w) ==
    /\ pc[w] = "resource"
    /\ LET c == [req[w] EXCEPT !.handles = Append(@, QuerySettings(FALSE))]
           found == GetResourceTypeID(c.request.ResourceName,
                                      c.request.ResourceUnit)
       IN IF found.err # "nil"
          THEN AddUsageReturns(w, c, SendError(found.err), found.err)
          ELSE /\ pc' = [pc EXCEPT ![w] = "read"]
               /\ req' = [req EXCEPT ![w] =
                            c @@ [usage |-> NewUsage(c.request, c.subscription,
                                                     found.id)]]
               /\ result' = Running("AddUsageHandler")
    /\ UNCHANGED <<now, planRates, planQuotaDefaults, subscriptions, quotas,
                   usages, applied, addons, subscriptionAddons, tx, call>>

\* Line 134, d.CalculateUsage: it reads the current usage row and computes
\* the new value.
AddUsageRead(w) ==
    /\ pc[w] = "read"
    /\ LET c == [req[w] EXCEPT !.handles = Append(@, QuerySettings(FALSE))]
           existing == UsageRowsOf(usages, c.usage.SubscriptionID,
                                   c.usage.ResourceType.ID)
       IN req' = [req EXCEPT ![w] =
                    c @@ [value |-> NewUsageValue(c.request.UpdateType,
                                                  c.usage.Usage, existing)]]
    /\ pc' = [pc EXCEPT ![w] = "write"]
    /\ result' = Running("AddUsageHandler")
    /\ UNCHANGED <<now, planRates, planQuotaDefaults, subscriptions, quotas,
                   usages, applied, addons, subscriptionAddons, tx, call>>

\* Lines 134-138, d.CalculateUsage: it writes the value it computed, and the
\* handler returns, without a reply when the call succeeded.  calcErr: the
\* write fails.
AddUsageWrite(w, calcErr) ==
    /\ pc[w] = "write"
    /\ LET c == req[w]
       IN IF calcErr
          THEN /\ AddUsageReturns(w, c, SendError("db"), "db")
               /\ UNCHANGED <<usages, applied>>
          ELSE /\ usages' = UpsertUsage(usages, c.usage.SubscriptionID,
                                        c.usage.ResourceType.ID, c.value)
               /\ applied' = Append(applied,
                                [SubscriptionID |-> c.usage.SubscriptionID,
                                 ResourceTypeID |-> c.usage.ResourceType.ID,
                                 op |-> c.request.UpdateType,
                                 amount |-> c.request.UsageValue])
               /\ AddUsageReturns(w, c, <<>>, "nil")
    /\ UNCHANGED <<now, planRates, planQuotaDefaults, subscriptions, quotas,
                   addons, subscriptionAddons, tx, call>>

\* The handler returns after its reply.
GetUsagesReturns(w, request, replies, err) ==
    /\ result' = [op |-> "GetUsagesHandler", request |-> request,
                  replies |-> replies, err |-> err]
    /\ pc' = [pc EXCEPT ![w] = "idle"]
    /\ req' = [req EXCEPT ![w] = IdleReq]

\* Lines 14-44: FixUsername, then d.GetActiveSubscription.  getErr: the query
\* fails.
GetUsagesBegin(w, request, getErr) ==
    LET fixed == FixUsername(request.Username)
    IN /\ pc[w] \in {"idle", "done"}
       /\ IF fixed.err # "nil"
          THEN GetUsagesReturns(w, request, SendError(fixed.err), fixed.err)
          ELSE \E active \in GetActiveSubscriptionReturns(fixed.name, now, getErr) :
                  IF active.err # "nil"
                  THEN GetUsagesReturns(w, request, SendError(active.err),
                                        active.err)
                  ELSE /\ pc' = [pc EXCEPT ![w] = "usages"]
                       /\ req' = [req EXCEPT ![w] =
                                    [op |-> "GetUsagesHandler",
                                     request |-> request,
                                     subscription |-> active.sub.val]]
                       /\ result' = Running("GetUsagesHandler")
       /\ UNCHANGED <<now, planRates, planQuotaDefaults, subscriptions, quotas,
                      usages, applied, addons, subscriptionAddons, tx, call>>

\* Lines 46-73: d.SubscriptionUsages of the subscription read before, then
\* the reply.  listErr: the query fails.
GetUsagesList(w, listErr) ==
    /\ pc[w] = "usages"
    /\ LET c == req[w]
       IN IF listErr
          THEN GetUsagesReturns(w, c.request, SendError("db"), "db")
          ELSE GetUsagesReturns(w, c.request,
                                <<[error |-> "nil",
                                   usages |-> SubscriptionUsages(c.subscription.ID)]>>,
                                "nil")
    /\ UNCHANGED <<now, planRates, planQuotaDefaults, subscriptions, quotas,
                   usages, applied, addons, subscriptionAddons, tx, call>>

---------------------------------------------------------------------------
(* The overage listing *)

OverageNoQuota(subscriptionID, resourceTypeID, quotaValue, usageValue) ==
    [UserPlanID |-> subscriptionID, ResourceType |-> resourceTypeID,
     QuotaValue |-> 0, UsageValue |-> usageValue]

\* The Overage struct: one entry of the listing.
Overage(subscriptionID, resourceTypeID, quotaValue, usageValue) ==
    [UserPlanID |-> subscriptionID, ResourceType |-> resourceTypeID,
     QuotaValue |-> quotaValue, UsageValue |-> usageValue]

\* The quota rows of one (subscription, resource type).
QuotaRowsOf(subscriptionID, resourceTypeID) ==
    {q \in Range(quotas) : /\ q.SubscriptionID = subscriptionID
                           /\ q.ResourceTypeID = resourceTypeID}

\* The overage listing of a subscription: quotas joined with usages by
\* (subscription, resource type); a usage row without a quota row counts
\* against a quota of 0.
OveragesFor(subscriptionID) ==
    {Overage(subscriptionID, j[1].ResourceTypeID, j[2].Quota, j[1].Usage) :
        j \in {x \in SubscriptionUsages(subscriptionID) \X Range(quotas) :
                 x[2] \in QuotaRowsOf(subscriptionID, x[1].ResourceTypeID)}}
    \cup
    {Overage(subscriptionID, u.ResourceTypeID, 0, u.Usage) :
        u \in {x \in SubscriptionUsages(subscriptionID) :
                 QuotaRowsOf(subscriptionID, x.ResourceTypeID) = {}}}

\* The amount an entry of the listing reports.
OverageAmount(overage) == overage.UsageValue - overage.QuotaValue

ListOverages(subscriptionID) ==
    /\ result' = [op |-> "ListOverages", id |-> subscriptionID,
                  overages |-> OveragesFor(subscriptionID)]
    /\ UNCHANGED <<now, planRates, planQuotaDefaults, subscriptions, quotas,
                   usages, applied, pc, req, addons, subscriptionAddons, tx,
                   call>>

---------------------------------------------------------------------------
(* Transactions and calls in progress *)

\* No transaction is open.  An open one holds the rows inserted into addons
\* through it, which are not in the table before the commit.
NoTx == [open |-> FALSE, addons |-> {}]

\* d.Begin()
Begin == [open |-> TRUE, addons |-> {}]

\* No handler of the add-on requests and no loader is running.
IdleCall == [pc |-> "idle"]

---------------------------------------------------------------------------
(* App.AddAddonHandler *)

\* The IDs (UUIDs) of the rows of resource_types.
ResourceTypeIDs == {ResourceTypeRow(i).ID : i \in DOMAIN ResourceTypeNames}

NilResourceType == [ID |-> "", Name |-> "", Unit |-> "", Consumable |-> FALSE]

\* Database.GetResourceTypeByName: the row of that name, an error when there
\* is none.
GetResourceTypeByName(name) ==
    IF \E i \in DOMAIN ResourceTypeNames : ResourceTypeNames[i] = name
    THEN [rt |-> ResourceTypeRow(CHOOSE i \in DOMAIN ResourceTypeNames :
                                     ResourceTypeNames[i] = name),
          err |-> "nil"]
    ELSE [rt |-> NilResourceType, err |-> "NotFound"]

\* Database.GetResourceType: the row of that ID, an error when there is none.
GetResourceType(uuid) ==
    IF \E i \in DOMAIN ResourceTypeNames : ResourceTypeRow(i).ID = uuid
    THEN [rt |-> ResourceTypeRow(CHOOSE i \in DOMAIN ResourceTypeNames :
                                     ResourceTypeRow(i).ID = uuid),
          err |-> "nil"]
    ELSE [rt |-> NilResourceType, err |-> "NotFound"]

\* The checks of the request before the transaction begins: the first error,
\* "nil" when there is none.
AddAddonChecks(reqAddon) ==
    IF reqAddon.Name = "" THEN "name must be set"
    ELSE IF reqAddon.Description = "" THEN "descriptions must be set"
    ELSE IF reqAddon.DefaultAmount <= 0
         THEN "default_amount must be greater than 0.0"
    ELSE IF reqAddon.ResourceType.Name = "" /\ reqAddon.ResourceType.Uuid = ""
         THEN "resource_type.name or resource_type.uuid must be set"
    ELSE "nil"

\* The lookup of the resource type: by name when only the name is set, by
\* UUID otherwise.
LookupResourceType(reqAddon) ==
    IF reqAddon.ResourceType.Name # "" /\ reqAddon.ResourceType.Uuid = ""
    THEN GetResourceTypeByName(reqAddon.ResourceType.Name)
    ELSE GetResourceType(reqAddon.ResourceType.Uuid)

\* db.NewAddonFromQMS with the resource type that was looked up.
NewAddonFromQMS(reqAddon, lookupRT) ==
    [ID |-> EmptyID, Name |-> reqAddon.Name,
     Description |-> reqAddon.Description,
     DefaultAmount |-> reqAddon.DefaultAmount,
     ResourceTypeID |-> lookupRT.ID]

\* The ID the database gives a new row of addons.
NewAddonID ==
    LET ids == {a.ID : a \in addons \cup tx.addons}
    IN IF ids = {} THEN 1 ELSE 1 + (CHOOSE i \in ids : \A j \in ids : j <= i)

AddAddonNoTX(newAddon, newID) ==
    [addons |-> addons \cup {[newAddon EXCEPT !.ID = newID]}, tx |-> tx]

\* d.AddAddon(ctx, newAddon, db.WithTX(tx)): the row is inserted through the
\* transaction.
AddAddon(newAddon, newID) ==
    [addons |-> addons,
     tx |-> [tx EXCEPT !.addons = @ \cup {[newAddon EXCEPT !.ID = newID]}]]

\* The handles of the database calls AddAddonHandler made when it returns
\* at that stage: the lookup and the insert, both with WithTX(tx).
AddAddonHandles(stage) ==
    LET n == IF stage \in {"checks", "begin"} THEN 0
             ELSE IF stage = "lookup" THEN 1
             ELSE 2
    IN [i \in 1..n |-> QuerySettings(TRUE)]

\* The handler returns after sendError: one reply that carries the error,
\* and the deferred tx.Rollback() drops what the transaction holds.
AddAddonFails(request, stage, err) ==
    /\ result' = [op |-> "AddAddonHandler", request |-> request,
                  stage |-> stage, handles |-> AddAddonHandles(stage),
                  replies |-> SendError(err), err |-> err]
    /\ tx' = NoTx
    /\ call' = IdleCall

\* Lines 58-98: the checks of the request, then d.Begin().
AddAddonBegin(request, beginErr) ==
    /\ call.pc = "idle"
    /\ Cardinality(addons) < MaxAddons
    /\ IF AddAddonChecks(request.Addon) # "nil"
       THEN AddAddonFails(request, "checks", AddAddonChecks(request.Addon))
       ELSE IF beginErr
       THEN AddAddonFails(request, "begin", "db")
       ELSE /\ tx' = Begin
            /\ call' = [pc |-> "lookup", request |-> request]
            /\ result' = [op |-> "AddAddonHandler", stage |-> "running"]
    /\ UNCHANGED <<now, planRates, planQuotaDefaults, subscriptions, quotas,
                   usages, applied, pc, req, addons, subscriptionAddons>>

\* Lines 100-115: the resource type is looked up through the transaction.
AddAddonLookup(lookupErr) ==
    /\ call.pc = "lookup"
    /\ LET found == LookupResourceType(call.request.Addon)
       IN IF lookupErr
          THEN AddAddonFails(call.request, "lookup", "db")
          ELSE IF found.err # "nil"
          THEN AddAddonFails(call.request, "lookup", found.err)
          ELSE /\ call' = [pc |-> "insert", request |-> call.request,
                           newAddon |-> NewAddonFromQMS(call.request.Addon,
                                                        found.rt)]
               /\ UNCHANGED <<tx, result>>
    /\ UNCHANGED <<now, planRates, planQuotaDefaults, subscriptions, quotas,
                   usages, applied, pc, req, addons, subscriptionAddons>>

\* Lines 117-121: the insert into addons.
AddAddonInsert(insertErr) ==
    /\ call.pc = "insert"
    /\ IF insertErr
       THEN /\ AddAddonFails(call.request, "insert", "db")
            /\ UNCHANGED addons
       ELSE /\ addons' = AddAddon(call.newAddon, NewAddonID).addons
            /\ tx' = AddAddon(call.newAddon, NewAddonID).tx
            /\ call' = [pc |-> "commit", request |-> call.request,
                        newAddon |-> call.newAddon, newID |-> NewAddonID]
            /\ UNCHANGED result
    /\ UNCHANGED <<now, planRates, planQuotaDefaults, subscriptions, quotas,
                   usages, applied, pc, req, subscriptionAddons>>

\* Lines 123-133: tx.Commit(), then the reply that carries the new add-on.
AddAddonCommit(commitErr) ==
    /\ call.pc = "commit"
    /\ IF commitErr
       THEN /\ AddAddonFails(call.request, "commit", "db")
            /\ UNCHANGED addons
       ELSE /\ addons' = addons \cup tx.addons
            /\ tx' = NoTx
            /\ call' = IdleCall
            /\ result' = [op |-> "AddAddonHandler", request |-> call.request,
                          stage |-> "done", handles |-> AddAddonHandles("done"),
                          replies |-> <<[error |-> "nil",
                                         addon |-> [call.newAddon EXCEPT
                                                       !.ID = call.newID]]>>,
                          err |-> "nil"]
    /\ UNCHANGED <<now, planRates, planQuotaDefaults, subscriptions, quotas,
                   usages, applied, pc, req, subscriptionAddons>>

---------------------------------------------------------------------------
(* App.UpdateAddonHandler, App.DeleteAddonHandler and                       *)
(* App.AddSubscriptionAddonHandler                                          *)

\* Database.UpdateAddon: the default amount of the add-on of that ID is set.
UpdateAddon(updateAddon) ==
    IF \E a \in addons : a.ID = updateAddon.ID
    THEN [addons |-> {IF a.ID = updateAddon.ID
                      THEN [a EXCEPT !.DefaultAmount = updateAddon.DefaultAmount]
                      ELSE a : a \in addons},
          err |-> "nil"]
    ELSE [addons |-> addons, err |-> "NotFound"]

\* Database.DeleteAddon: the add-on of that ID is deleted.
DeleteAddon(uuid) == {a \in addons : a.ID # uuid}

\* The ID the database gives a new row of subscription_addons.
NewSubscriptionAddonID ==
    LET ids == {a.ID : a \in subscriptionAddons}
    IN IF ids = {} THEN 1 ELSE 1 + (CHOOSE i \in ids : \A j \in ids : j <= i)

\* Database.AddSubscriptionAddon: both IDs must exist; the new row of
\* subscription_addons carries the default amount of the add-on.
AddSubscriptionAddon(subscriptionID, addonID) ==
    IF \/ ~ \E sub \in Range(subscriptions) : sub.ID = subscriptionID
       \/ ~ \E a \in addons : a.ID = addonID
    THEN [rows |-> {}, err |-> "NotFound"]
    ELSE [rows |-> {[ID |-> NewSubscriptionAddonID,
                     SubscriptionID |-> subscriptionID,
                     AddonID |-> addonID,
                     Amount |-> (CHOOSE a \in addons :
                                    a.ID = addonID).DefaultAmount]},
          err |-> "nil"]

\* The reply of a handler and the handles its database calls ran on.
AddonHandlerDone(op, request, handles, replies, err) ==
    [op |-> op, request |-> request, handles |-> handles,
     replies |-> replies, err |-> err]

UpdateAddonHandler(request, dbErr) ==
    LET Done(handles, replies, err) ==
            AddonHandlerDone("UpdateAddonHandler", request, handles, replies, err)
        updated == UpdateAddon([ID |-> request.Addon.Uuid,
                                DefaultAmount |-> request.Addon.DefaultAmount])
    IN /\ IF request.Addon.Uuid = EmptyID
          THEN /\ result' = Done(<<>>, SendError("uuid must be set in the request"),
                                 "uuid must be set in the request")
               /\ UNCHANGED addons
          ELSE IF dbErr
          THEN /\ result' = Done(<<QuerySettings(FALSE)>>, SendError("db"), "db")
               /\ UNCHANGED addons
          ELSE IF updated.err # "nil"
          THEN /\ result' = Done(<<QuerySettings(FALSE)>>,
                                 SendError(updated.err), updated.err)
               /\ UNCHANGED addons
          ELSE /\ addons' = updated.addons
               /\ result' = Done(<<QuerySettings(FALSE)>>,
                                 <<[error |-> "nil",
                                    addon |-> request.Addon.Uuid]>>, "nil")
       /\ UNCHANGED <<now, planRates, planQuotaDefaults, subscriptions, quotas,
                      usages, applied, pc, req, subscriptionAddons, tx, call>>

DeleteAddonHandler(request, dbErr) ==
    LET Done(handles, replies, err) ==
            AddonHandlerDone("DeleteAddonHandler", request, handles, replies, err)
    IN /\ IF dbErr
          THEN /\ result' = Done(<<QuerySettings(FALSE)>>, SendError("db"), "db")
               /\ UNCHANGED addons
          ELSE /\ addons' = DeleteAddon(request.Uuid)
               /\ result' = Done(<<QuerySettings(FALSE)>>,
                                 <<[error |-> "nil", addon |-> request.Uuid]>>,
                                 "nil")
       /\ UNCHANGED <<now, planRates, planQuotaDefaults, subscriptions, quotas,
                      usages, applied, pc, req, subscriptionAddons, tx, call>>

AssociateArgsSwapped(request) ==
    [subscriptionID |-> request.ChildUuid, addonID |-> request.ParentUuid]

\* subscriptionID := request.ParentUuid; addonID := request.ChildUuid
AssociateArgs(request) ==
    [subscriptionID |-> request.ParentUuid, addonID |-> request.ChildUuid]

AddSubscriptionAddonHandler(request, dbErr) ==
    LET Done(handles, replies, err) ==
            AddonHandlerDone("AddSubscriptionAddonHandler", request, handles,
                             replies, err)
        args == AssociateArgs(request)
        added == AddSubscriptionAddon(args.subscriptionID, args.addonID)
    IN /\ Cardinality(subscriptionAddons) < MaxAttached
       /\ IF request.ParentUuid = EmptyID
          THEN /\ result' = Done(<<>>,
                     SendError("parent_uuid must be set to the subscription UUID"),
                     "parent_uuid must be set to the subscription UUID")
               /\ UNCHANGED subscriptionAddons
          ELSE IF request.ChildUuid = EmptyID
          THEN /\ result' = Done(<<>>,
                     SendError("child_id must be set to the add-on UUID"),
                     "child_id must be set to the add-on UUID")
               /\ UNCHANGED subscriptionAddons
          ELSE IF dbErr
          THEN /\ result' = Done(<<QuerySettings(FALSE)>>, SendError("db"), "db")
               /\ UNCHANGED subscriptionAddons
          ELSE IF added.err # "nil"
          THEN /\ result' = Done(<<QuerySettings(FALSE)>>,
                                 SendError(added.err), added.err)
               /\ UNCHANGED subscriptionAddons
          ELSE /\ subscriptionAddons' = subscriptionAddons \cup added.rows
               /\ result' = Done(<<QuerySettings(FALSE)>>,
                                 <<[error |-> "nil",
                                    subscriptionAddons |-> added.rows]>>, "nil")
       /\ UNCHANGED <<now, planRates, planQuotaDefaults, subscriptions, quotas,
                      usages, applied, pc, req, addons, tx, call>>

---------------------------------------------------------------------------
(* Database.LoadSubscriptionDetails *)

\* The tables LoadSubscriptionDetails reads.
Tables ==
    [planQuotaDefaults |-> planQuotaDefaults, quotas |-> quotas,
     usages |-> usages, planRates |-> planRates,
     subscriptionAddons |-> subscriptionAddons]

\* What a query sees: the tables as they are, or, on a transaction, the
\* tables as they were when the transaction began.
TablesOn(handle) == IF handle = "tx" THEN tx.snapshot ELSE Tables

\* Database.SubscriptionQuotaDefaults: the rows of plan_quota_defaults with
\* plan_id = planID.  The table holds the rows of the plan DefaultPlanName.
SubscriptionQuotaDefaults(planID, handle) ==
    IF planID = DefaultPlanName THEN TablesOn(handle).planQuotaDefaults ELSE <<>>

\* Database.SubscriptionQuotas
SubscriptionQuotas(subscriptionID, handle) ==
    SelectSeq(TablesOn(handle).quotas,
              LAMBDA q : q.SubscriptionID = subscriptionID)

\* Database.SubscriptionUsages with the options of the loader.
SubscriptionUsagesOn(subscriptionID, handle) ==
    {u \in TablesOn(handle).usages : u.SubscriptionID = subscriptionID}

\* Database.SubscriptionPlanRates: the rows of plan_rates with
\* plan_id = planID.  The table holds the rows of the plan DefaultPlanName.
SubscriptionPlanRates(planID, handle) ==
    IF planID = DefaultPlanName THEN TablesOn(handle).planRates ELSE {}

\* Database.ListSubscriptionAddons
ListSubscriptionAddons(subscriptionID, handle) ==
    {a \in TablesOn(handle).subscriptionAddons :
        a.SubscriptionID = subscriptionID}

\* LoadSubscriptionDetails returns an error: nothing is assigned.
LoadFails ==
    /\ result' = [op |-> "LoadSubscriptionDetails", withTX |-> call.withTX,
                  err |-> "db"]
    /\ call' = IdleCall
    /\ tx' = NoTx

\* The caller begins a transaction or not and calls LoadSubscriptionDetails
\* with the options opts.
LoadBegin(subscription, withTX) ==
    /\ call.pc = "idle"
    /\ call' = [pc |-> "defaults", subscription |-> subscription,
                withTX |-> withTX, begun |-> Tables]
    /\ tx' = IF withTX THEN [open |-> TRUE, addons |-> {}, snapshot |-> Tables]
             ELSE NoTx
    /\ result' = [op |-> "LoadSubscriptionDetails", err |-> "running"]
    /\ UNCHANGED <<now, planRates, planQuotaDefaults, subscriptions, quotas,
                   usages, applied, pc, req, addons, subscriptionAddons>>

\* defaults, err = d.SubscriptionQuotaDefaults(ctx, subscription.Plan.ID, opts...)
LoadQuotaDefaults(dbErr) ==
    /\ call.pc = "defaults"
    /\ IF dbErr THEN LoadFails
       ELSE /\ call' = [call EXCEPT !.pc = "quotas"] @@
                       [defaults |-> SubscriptionQuotaDefaults(
                                        call.subscription.PlanID,
                                        QuerySettings(call.withTX))]
            /\ UNCHANGED <<tx, result>>
    /\ UNCHANGED <<now, planRates, planQuotaDefaults, subscriptions, quotas,
                   usages, applied, pc, req, addons, subscriptionAddons>>

\* quotas, err = d.SubscriptionQuotas(ctx, subscription.ID, opts...)
LoadQuotas(dbErr) ==
    /\ call.pc = "quotas"
    /\ IF dbErr THEN LoadFails
       ELSE /\ call' = [call EXCEPT !.pc = "usages"] @@
                       [quotas |-> SubscriptionQuotas(call.subscription.ID,
                                       QuerySettings(call.withTX))]
            /\ UNCHANGED <<tx, result>>
    /\ UNCHANGED <<now, planRates, planQuotaDefaults, subscriptions, quotas,
                   usages, applied, pc, req, addons, subscriptionAddons>>

\* usages, err = d.SubscriptionUsages(ctx, subscription.ID, opts...)
LoadUsages(dbErr) ==
    /\ call.pc = "usages"
    /\ IF dbErr THEN LoadFails
       ELSE /\ call' = [call EXCEPT !.pc = "planRates"] @@
                       [usages |-> SubscriptionUsagesOn(call.subscription.ID,
                                       QuerySettings(call.withTX))]
            /\ UNCHANGED <<tx, result>>
    /\ UNCHANGED <<now, planRates, planQuotaDefaults, subscriptions, quotas,
                   usages, applied, pc, req, addons, subscriptionAddons>>

\* The handle of d.SubscriptionPlanRates(ctx, subscription.Plan.ID): the call
\* is made without the options.
LoadPlanRatesHandle(withTX) == QuerySettings(FALSE)

\* planRates, err := d.SubscriptionPlanRates(ctx, subscription.Plan.ID)
LoadPlanRates(dbErr) ==
    /\ call.pc = "planRates"
    /\ IF dbErr THEN LoadFails
       ELSE /\ call' = [call EXCEPT !.pc = "addons"] @@
                       [planRates |-> SubscriptionPlanRates(
                                         call.subscription.PlanID,
                                         LoadPlanRatesHandle(call.withTX))]
            /\ UNCHANGED <<tx, result>>
    /\ UNCHANGED <<now, planRates, planQuotaDefaults, subscriptions, quotas,
                   usages, applied, pc, req, addons, subscriptionAddons>>

\* addons, err := d.ListSubscriptionAddons(ctx, subscription.ID, opts...),
\* then the five collections are assigned to the subscription.
LoadSubscriptionAddons(dbErr) ==
    /\ call.pc = "addons"
    /\ IF dbErr THEN LoadFails
       ELSE /\ result' =
                  [op |-> "LoadSubscriptionDetails", withTX |-> call.withTX,
                   err |-> "nil", begun |-> call.begun,
                   subscription |->
                      [ID |-> call.subscription.ID,
                       Plan |-> [ID |-> call.subscription.PlanID,
                                 QuotaDefaults |-> call.defaults,
                                 Rates |-> call.planRates],
                       Quotas |-> call.quotas,
                       Usages |-> call.usages,
                       SubscriptionAddons |->
                          ListSubscriptionAddons(call.subscription.ID,
                                                 QuerySettings(call.withTX))]]
            /\ call' = IdleCall
            /\ tx' = NoTx
    /\ UNCHANGED <<now, planRates, planQuotaDefaults, subscriptions, quotas,
                   usages, applied, pc, req, addons, subscriptionAddons>>

\* A rate is added to the plan by another request.
AddPlanRate ==
    /\ Cardinality(planRates) < MaxRates
    /\ planRates' = planRates \cup {[ID |-> Cardinality(planRates) + 1,
                                     EffectiveDate |-> now]}
    /\ result' = [op |-> "AddPlanRate", err |-> "nil"]
    /\ UNCHANGED <<now, planQuotaDefaults, subscriptions, quotas, usages,
                   applied, pc, req, addons, subscriptionAddons, tx, call>>

---------------------------------------------------------------------------
(* Initial states and specifications. *)

\* One rate, effective from the start.
BaseRates == {[ID |-> 1, EffectiveDate |-> 0]}

\* One row of plan_quota_defaults of the plan DefaultPlanName as the query of
\* SubscriptionQuotaDefaults selects it: id, quota_value, effective_date and
\* the joined row i of resource_types.
PlanQuotaDefault(id, i, quotaValue, effectiveDate) ==
    [ID |-> id, ResourceType |-> ResourceTypeRow(i), QuotaValue |-> quotaValue,
     EffectiveDate |-> effectiveDate]

BaseDefaults ==
    <<PlanQuotaDefault(1, 1, 1, 0), PlanQuotaDefault(2, 2, 1, 0)>>

\* The plan_rates tables the quota specification starts from.
RateOptions ==
    {{}, BaseRates, {[ID |-> 2, EffectiveDate |-> 1]},
     BaseRates \cup {[ID |-> 2, EffectiveDate |-> 1]}}

\* The plan_quota_defaults tables the quota specification starts from: no
\* row, one row or two rows of the plan.  The table has no constraint on the
\* resource types of a plan's rows: two rows are of two resource types, in
\* either order, or of the same one, with the same effective_date or with a
\* later one.
DefaultOptions ==
    {<<>>}
    \cup {<<PlanQuotaDefault(1, i, v, 0)>> :
            i \in DOMAIN ResourceTypeNames, v \in 1..MaxQuota}
    \cup {<<PlanQuotaDefault(1, p[1], v, 0), PlanQuotaDefault(2, p[2], x, e)>> :
            p \in (DOMAIN ResourceTypeNames) \X (DOMAIN ResourceTypeNames),
            v \in 1..MaxQuota, x \in 1..MaxQuota, e \in 0..1}

\* A subscription row written by another writer of the database: open-ended
\* (end = NULL) or with an end date after its start, which may lie ahead.
SeedRow(user, start, end) ==
    [ID |-> 1, EffectiveStartDate |-> start, EffectiveEndDate |-> end,
     User |-> user, PlanID |-> DefaultPlanName, Paid |-> FALSE, PlanRateID |-> 1]

SeedOptions ==
    {<<>>}
    \cup {<<SeedRow("u1", t, NULL)>> : t \in Times}
    \cup {<<SeedRow("u1", iv[1], iv[2])>> :
             iv \in {x \in Times \X Times : x[1] < x[2]}}

InitCommon ==
    /\ now = 0
    /\ quotas = <<>>
    /\ usages = {}
    /\ result = [op |-> "Init"]
    /\ applied = <<>>
    /\ pc = [w \in Workers |-> "idle"]
    /\ req = [w \in Workers |-> IdleReq]
    /\ addons = {}
    /\ subscriptionAddons = {}
    /\ tx = NoTx
    /\ call = IdleCall

\* Usage updates are handled one after another by the worker UsageWorker;
\* the worker OtherWorker handles the requests that fall in between.
UsageWorker == 1

OtherWorker == 2

\* The workers that call SetActiveSubscription at once.
Callers == {UsageWorker, OtherWorker}

\* The subscription selector: subscriptions of two users over time.
Init ==
    /\ InitCommon
    /\ planRates = BaseRates
    /\ planQuotaDefaults = BaseDefaults
    /\ subscriptions \in SeedOptions

Next ==
    \/ Tick
    \/ \E user \in Users, e \in Times, subErr \in BOOLEAN :
          SetActiveSubscriptionInsert(OtherWorker, user, LoadPlan,
              [Paid |-> FALSE, Periods |-> 1, EndDate |-> e], subErr)
    \/ SetActiveSubscriptionQuota(OtherWorker, FALSE)
    \/ \E user \in Users, dbErr \in BOOLEAN : GetActiveSubscription(user, dbErr)
    \/ \E user \in Users, dbErr \in BOOLEAN : UserHasActivePlan(user, dbErr)

Spec == Init /\ [][Next]_vars

\* The tables of DefaultOptions whose rows are all effective from the start:
\* the rates decide whether a subscription is created, and the loop does not
\* read the effective_date of a quota default.
EffectiveDefaultOptions ==
    {defaults \in DefaultOptions :
        \A i \in DOMAIN defaults : defaults[i].EffectiveDate = 0}

\* Quota materialization: every plan and every period count.
InitQuota ==
    /\ InitCommon
    /\ planRates \in RateOptions
    /\ planQuotaDefaults \in EffectiveDefaultOptions
    /\ subscriptions = <<>>

NextQuota ==
    \/ Tick
    \/ \E periods \in 1..MaxPeriods, paid \in BOOLEAN, subErr \in BOOLEAN :
          SetActiveSubscriptionInsert(OtherWorker, "u1", LoadPlan,
              [Paid |-> paid, Periods |-> periods, EndDate |-> MaxTime], subErr)
    \/ SetActiveSubscriptionQuota(OtherWorker, FALSE)

SpecQuota == InitQuota /\ [][NextQuota]_vars

\* Quota materialization while the quota defaults of the plan change.
MaterializeDefaults ==
    {<<>>, BaseDefaults,
     <<PlanQuotaDefault(3, 1, MaxQuota, 1)>>,
     <<PlanQuotaDefault(2, 2, 1, 0), PlanQuotaDefault(3, 1, MaxQuota, 1)>>}

InitMaterialize ==
    /\ InitCommon
    /\ planRates = BaseRates
    /\ planQuotaDefaults \in MaterializeDefaults
    /\ subscriptions = <<>>

NextMaterialize ==
    \/ \E w \in Callers : GetPlan(w)
    \/ \E w \in Callers :
          /\ pc[w] = "plan"
          /\ SetActiveSubscriptionInsert(w, "u1", req[w].plan,
                [Paid |-> FALSE, Periods |-> 1, EndDate |-> MaxTime], FALSE)
    \/ \E w \in Callers : SetActiveSubscriptionQuota(w, FALSE)
    \/ \E defaults \in MaterializeDefaults : UpdateQuotaDefaults(defaults)

SpecMaterialize == InitMaterialize /\ [][NextMaterialize]_vars

\* Quota materialization while inserts into quotas fail.
NextInsertFail ==
    \/ \E w \in Callers, periods \in 1..MaxPeriods :
          SetActiveSubscriptionInsert(w, "u1", LoadPlan,
              [Paid |-> FALSE, Periods |-> periods, EndDate |-> MaxTime], FALSE)
    \/ \E w \in Callers, insertErr \in BOOLEAN :
          SetActiveSubscriptionQuota(w, insertErr)

InitInsertFail ==
    /\ InitCommon
    /\ planRates = BaseRates
    /\ planQuotaDefaults \in DefaultOptions
    /\ subscriptions = <<>>

SpecInsertFail == InitInsertFail /\ [][NextInsertFail]_vars

\* The usage ledger, one update after another: u1 has an active subscription
\* or none at all.
Requests ==
    {r \in [Username : {"u1", ""},
            UpdateType : {"ADD", "SET", "DEL"},
            ResourceName : {"cpu.hours", "data.size"},
            ResourceUnit : {"cpu hours", "bytes"},
            UsageValue : 1..MaxAmount] :
        r.ResourceName = "data.size" => r.ResourceUnit = "bytes"}

UsageSubscriptions ==
    <<[ID |-> 1, EffectiveStartDate |-> 0, EffectiveEndDate |-> MaxTime,
       User |-> "u1", PlanID |-> DefaultPlanName, Paid |-> FALSE,
       PlanRateID |-> 1]>>

InitUsage ==
    /\ InitCommon
    /\ planRates = BaseRates
    /\ planQuotaDefaults = BaseDefaults
    /\ subscriptions \in {UsageSubscriptions, <<>>}

NextUsage ==
    \/ \E request \in Requests, getErr \in BOOLEAN :
          /\ Len(applied) < MaxUpdates
          /\ AddUsageBegin(UsageWorker, request, getErr)
    \/ AddUsageOperationID(UsageWorker)
    \/ AddUsageResourceTypeID(UsageWorker)
    \/ AddUsageRead(UsageWorker)
    \/ \E calcErr \in BOOLEAN : AddUsageWrite(UsageWorker, calcErr)
    \/ \E username \in {"u1", ""}, getErr \in BOOLEAN :
          GetUsagesBegin(OtherWorker, [Username |-> username], getErr)
    \/ \E listErr \in BOOLEAN : GetUsagesList(OtherWorker, listErr)

SpecUsage == InitUsage /\ [][NextUsage]_vars

\* The usage handlers while subscriptions are created for the user: every
\* worker handles any request, and the statements of the requests
\* interleave.
SubscribeRequests ==
    {r \in Requests : /\ r.Username = "u1"
                      /\ r.UpdateType \in {"ADD", "SET"}
                      /\ r.ResourceName = "cpu.hours"
                      /\ r.ResourceUnit = "cpu hours"
                      /\ r.UsageValue = 1}

NextSubscribe ==
    \/ \E w \in Workers, request \in SubscribeRequests :
          /\ Len(applied) < MaxUpdates
          /\ AddUsageBegin(w, request, FALSE)
    \/ \E w \in Workers : AddUsageOperationID(w)
    \/ \E w \in Workers : AddUsageResourceTypeID(w)
    \/ \E w \in Workers : AddUsageRead(w)
    \/ \E w \in Workers : AddUsageWrite(w, FALSE)
    \/ \E w \in Workers : GetUsagesBegin(w, [Username |-> "u1"], FALSE)
    \/ \E w \in Workers : GetUsagesList(w, FALSE)
    \/ \E w \in Workers :
          SetActiveSubscriptionInsert(w, "u1", LoadPlan,
              [Paid |-> FALSE, Periods |-> 1, EndDate |-> MaxTime], FALSE)
    \/ \E w \in Workers : SetActiveSubscriptionQuota(w, FALSE)

SpecSubscribe == InitUsage /\ [][NextSubscribe]_vars

\* The overage listing over every table of quotas and of usages of
\* subscription 1, next to the rows of a subscription 2.
QuotaOptions ==
    {SelectSeq(<<[ResourceTypeID |-> ResourceTypeNames[1], SubscriptionID |-> 1,
                  Quota |-> f[1]],
                 [ResourceTypeID |-> ResourceTypeNames[2], SubscriptionID |-> 1,
                  Quota |-> f[2]],
                 [ResourceTypeID |-> ResourceTypeNames[1], SubscriptionID |-> 2,
                  Quota |-> MaxQuota]>>,
               LAMBDA q : q.Quota # NULL) :
        f \in [1..2 -> {NULL} \cup 1..MaxQuota]}

UsageOptions ==
    {{u \in {[SubscriptionID |-> 1, ResourceTypeID |-> ResourceTypeNames[1],
              Usage |-> f[1]],
             [SubscriptionID |-> 1, ResourceTypeID |-> ResourceTypeNames[2],
              Usage |-> f[2]],
             [SubscriptionID |-> 2, ResourceTypeID |-> ResourceTypeNames[2],
              Usage |-> MaxAmount]} : u.Usage # NULL} :
        f \in [1..2 -> {NULL} \cup 0..MaxAmount]}

InitOverage ==
    /\ now = 0
    /\ planRates = BaseRates
    /\ planQuotaDefaults = BaseDefaults
    /\ subscriptions = <<SeedRow("u1", 0, MaxTime),
                         [SeedRow("u2", 0, MaxTime) EXCEPT !.ID = 2]>>
    /\ quotas \in QuotaOptions
    /\ usages \in UsageOptions
    /\ result = [op |-> "Init"]
    /\ applied = <<>>
    /\ pc = [w \in Workers |-> "idle"]
    /\ req = [w \in Workers |-> IdleReq]
    /\ addons = {}
    /\ subscriptionAddons = {}
    /\ tx = NoTx
    /\ call = IdleCall

NextOverage == \E s \in Range(subscriptions) : ListOverages(s.ID)

SpecOverage == InitOverage /\ [][NextOverage]_vars

\* The requests to add an add-on: every field empty or set, the resource
\* type named by a name or a UUID that resolves or not.
AddAddonRequests ==
    {[Addon |-> a] :
        a \in [Name : {"", "a"},
               Description : {"", "d"},
               DefaultAmount : 0..MaxAmount,
               ResourceType : [Name : {"", "cpu.hours", "none"},
                               Uuid : {"", "data.size", "none"}]]}

\* Add-ons are added one request after another; the steps of a request run
\* on its transaction.
NextAddon ==
    \/ \E request \in AddAddonRequests, beginErr \in BOOLEAN :
          AddAddonBegin(request, beginErr)
    \/ \E lookupErr \in BOOLEAN : AddAddonLookup(lookupErr)
    \/ \E insertErr \in BOOLEAN : AddAddonInsert(insertErr)
    \/ \E commitErr \in BOOLEAN : AddAddonCommit(commitErr)

InitAddon ==
    /\ InitCommon
    /\ planRates = BaseRates
    /\ planQuotaDefaults = BaseDefaults
    /\ subscriptions = UsageSubscriptions

SpecAddon == InitAddon /\ [][NextAddon]_vars

\* Add-ons are changed, deleted and attached to the subscriptions 1 and 2,
\* which have quota rows.
AddonSeeds ==
    {[ID |-> 1, Name |-> "a", Description |-> "d", DefaultAmount |-> 1,
      ResourceTypeID |-> ResourceTypeNames[1]],
     [ID |-> 2, Name |-> "b", Description |-> "d", DefaultAmount |-> MaxAmount,
      ResourceTypeID |-> ResourceTypeNames[2]]}

InitAttach ==
    /\ now = 0
    /\ planRates = BaseRates
    /\ planQuotaDefaults = BaseDefaults
    /\ subscriptions = <<SeedRow("u1", 0, MaxTime),
                         [SeedRow("u2", 0, MaxTime) EXCEPT !.ID = 2]>>
    /\ quotas = QuotaRows(1, BaseDefaults, 1, Len(BaseDefaults))
                \o QuotaRows(2, BaseDefaults, 1, Len(BaseDefaults))
    /\ usages = {}
    /\ result = [op |-> "Init"]
    /\ applied = <<>>
    /\ pc = [w \in Workers |-> "idle"]
    /\ req = [w \in Workers |-> IdleReq]
    /\ addons = AddonSeeds
    /\ subscriptionAddons = {}
    /\ tx = NoTx
    /\ call = IdleCall

NextAttach ==
    \/ \E uuid \in 0..2, amount \in 1..MaxAmount, dbErr \in BOOLEAN :
          UpdateAddonHandler([Addon |-> [Uuid |-> uuid, DefaultAmount |-> amount]],
                             dbErr)
    \/ \E uuid \in 1..2, dbErr \in BOOLEAN :
          DeleteAddonHandler([Uuid |-> uuid], dbErr)
    \/ \E parent \in 0..3, child \in 0..3, dbErr \in BOOLEAN :
          AddSubscriptionAddonHandler([ParentUuid |-> parent, ChildUuid |-> child],
                                      dbErr)

SpecAttach == InitAttach /\ [][NextAttach]_vars

\* The details of subscription 1 are loaded while other requests commit
\* changes of the tables between the reads of the loader.
InitLoad ==
    /\ now = 0
    /\ planRates = BaseRates
    /\ planQuotaDefaults = BaseDefaults
    /\ subscriptions = UsageSubscriptions
    /\ quotas = QuotaRows(1, BaseDefaults, 1, Len(BaseDefaults))
    /\ usages = {}
    /\ result = [op |-> "Init"]
    /\ applied = <<>>
    /\ pc = [w \in Workers |-> "idle"]
    /\ req = [w \in Workers |-> IdleReq]
    /\ addons = AddonSeeds
    /\ subscriptionAddons = {}
    /\ tx = NoTx
    /\ call = IdleCall

NextLoad ==
    \/ \E subscription \in {subscriptions[1], ZeroSubscription},
          withTX \in BOOLEAN : LoadBegin(subscription, withTX)
    \/ \E dbErr \in BOOLEAN : LoadQuotaDefaults(dbErr)
    \/ \E dbErr \in BOOLEAN : LoadQuotas(dbErr)
    \/ \E dbErr \in BOOLEAN : LoadUsages(dbErr)
    \/ \E dbErr \in BOOLEAN : LoadPlanRates(dbErr)
    \/ \E dbErr \in BOOLEAN : LoadSubscriptionAddons(dbErr)
    \/ call.pc # "idle" /\ AddPlanRate
    \/ call.pc # "idle" /\ \E defaults \in {<<>>, BaseDefaults} :
          UpdateQuotaDefaults(defaults)
    \/ /\ call.pc # "idle"
       /\ Len(applied) < MaxUpdates
       /\ AddUsageBegin(UsageWorker,
                        [Username |-> "u1", UpdateType |-> "ADD",
                         ResourceName |-> "cpu.hours",
                         ResourceUnit |-> "cpu hours", UsageValue |-> 1], FALSE)
    \/ AddUsageOperationID(UsageWorker)
    \/ AddUsageResourceTypeID(UsageWorker)
    \/ AddUsageRead(UsageWorker)
    \/ AddUsageWrite(UsageWorker, FALSE)
    \/ call.pc # "idle" /\
          AddSubscriptionAddonHandler([ParentUuid |-> 1, ChildUuid |-> 1], FALSE)

SpecLoad == InitLoad /\ [][NextLoad]_vars

\* The usage ledger under concurrent requests.
InitConc ==
    /\ now = 0
    /\ quotas = <<>>
    /\ \/ usages = {} /\ applied = <<>>
       \/ \E v \in 0..MaxAmount :
             /\ usages = {[SubscriptionID |-> 1, ResourceTypeID |-> "cpu.hours",
                           Usage |-> v]}
             /\ applied = <<[SubscriptionID |-> 1, ResourceTypeID |-> "cpu.hours",
                             op |-> "SET", amount |-> v]>>
    /\ result = [op |-> "Init"]
    /\ pc = [w \in Workers |-> "idle"]
    /\ req = [w \in Workers |-> IdleReq]
    /\ addons = {}
    /\ subscriptionAddons = {}
    /\ tx = NoTx
    /\ call = IdleCall
    /\ planRates = BaseRates
    /\ planQuotaDefaults = BaseDefaults
    /\ subscriptions = UsageSubscriptions

ConcRequests ==
    {r \in Requests : r.Username = "u1" /\ r.ResourceName = "cpu.hours"}

NextConc ==
    \/ \E w \in Workers, request \in ConcRequests, getErr \in BOOLEAN :
          pc[w] = "idle" /\ AddUsageBegin(w, request, getErr)
    \/ \E w \in Workers : AddUsageOperationID(w)
    \/ \E w \in Workers : AddUsageResourceTypeID(w)
    \/ \E w \in Workers : AddUsageRead(w)
    \/ \E w \in Workers, calcErr \in BOOLEAN : AddUsageWrite(w, calcErr)

SpecConc == InitConc /\ [][NextConc]_vars

---------------------------------------------------------------------------
(* Quota materialization *)

C2_NoEffectiveRate ==
    [][(result'.op = "SetActiveSubscription"
          /\ ~ \E r \in result'.plan.Rates : r.EffectiveDate <= now)
       => (/\ result'.err = "NoEffectiveRate"
           /\ result'.id = EmptyID
           /\ subscriptions' = subscriptions
           /\ quotas' = quotas)]_vars

\* The call failed on a plan whose only rate lies in the future.
C2_Witness ==
    /\ result.op = "SetActiveSubscription"
    /\ result.err = "NoEffectiveRate"
    /\ result.plan.Rates # {}
    /\ \A r \in result.plan.Rates : r.EffectiveDate > now

---------------------------------------------------------------------------
(* The active subscription of a user *)

\* C3 as stated: GetActiveSubscription never returns a subscription whose
\* effective_end_date is set and now >= effective_end_date (the interval is
\* half-open, the end instant excluded), and never one with
\* now < effective_start_date.
C3_HalfOpenInterval ==
    (result.op = "GetActiveSubscription" /\ result.err = "nil"
        /\ result.sub.val.ID # EmptyID) =>
        LET s == result.sub.val
        IN /\ ~ (s.EffectiveEndDate # NULL /\ now >= s.EffectiveEndDate)
           /\ ~ (now < s.EffectiveStartDate)

\* C3 amended: GetActiveSubscription never returns a subscription whose
\* effective_end_date is set and now > effective_end_date, and never one with
\* now < effective_start_date; the end instant itself is included.
C3_ClosedInterval ==
    (result.op = "GetActiveSubscription" /\ result.err = "nil"
        /\ result.sub.val.ID # EmptyID) =>
        LET s == result.sub.val
        IN /\ ~ (s.EffectiveEndDate # NULL /\ now > s.EffectiveEndDate)
           /\ ~ (now < s.EffectiveStartDate)

\* A subscription with an end date was returned at its end instant, later
\* than its start.
C3_Witness ==
    /\ result.op = "GetActiveSubscription"
    /\ result.err = "nil"
    /\ result.sub.val.ID # EmptyID
    /\ result.sub.val.EffectiveEndDate = now
    /\ result.sub.val.EffectiveStartDate < now

\* C4: an open-ended subscription that is the user's only subscription is
\* returned by GetActiveSubscription at every instant
\* now >= effective_start_date, the instant now = effective_start_date
\* included.
C4_OpenEndedFromStart ==
    (result.op = "GetActiveSubscription" /\ result.err = "nil") =>
        LET mine == {s \in Range(subscriptions) : s.User = result.user}
        IN \A s \in mine :
              (mine = {s} /\ s.EffectiveEndDate = NULL
                  /\ now >= s.EffectiveStartDate)
              => result.sub.val = s

\* C5: when one or several subscriptions of the user pass the selection of
\* GetActiveSubscription at the same instant, the call returns one of them,
\* and none of them has a later effective_start_date than the one returned.
C5_LatestStartWins ==
    (result.op = "GetActiveSubscription" /\ result.err = "nil") =>
        LET Q == {s \in Range(subscriptions) :
                    /\ s.User = result.user
                    /\ \/ /\ s.EffectiveEndDate # NULL
                          /\ s.EffectiveStartDate <= now
                          /\ now <= s.EffectiveEndDate
                       \/ /\ s.EffectiveEndDate = NULL
                          /\ s.EffectiveStartDate < now}
        IN Q # {} =>
              /\ result.sub.val \in Q
              /\ \A t \in Q :
                    t.EffectiveStartDate <= result.sub.val.EffectiveStartDate

\* Two overlapping subscriptions of the user with different start dates are
\* both active, and the later one was returned.
C5_Witness ==
    /\ result.op = "GetActiveSubscription"
    /\ result.err = "nil"
    /\ result.sub.val.ID # EmptyID
    /\ \E t \in Range(subscriptions) :
          /\ t.User = result.user
          /\ t.EffectiveStartDate < result.sub.val.EffectiveStartDate
          /\ t.EffectiveEndDate # NULL
          /\ now < t.EffectiveEndDate

\* C6: for a user whose subscriptions are two back-to-back ones, [t0,t1) and
\* [t1,t2), GetActiveSubscription returns the first at every instant
\* t0 <= now < t1 and the second at now = t1.
C6_BackToBack ==
    (result.op = "GetActiveSubscription" /\ result.err = "nil") =>
        LET mine == {s \in Range(subscriptions) : s.User = result.user}
        IN \A a, b \in mine :
              (/\ mine = {a, b}
               /\ a.EffectiveEndDate # NULL
               /\ b.EffectiveEndDate # NULL
               /\ a.EffectiveEndDate = b.EffectiveStartDate
               /\ a.EffectiveStartDate < a.EffectiveEndDate
               /\ b.EffectiveStartDate < b.EffectiveEndDate)
              => /\ (a.EffectiveStartDate <= now /\ now < a.EffectiveEndDate)
                       => result.sub.val = a
                 /\ now = b.EffectiveStartDate => result.sub.val = b

\* The second of two back-to-back subscriptions was returned at the instant
\* the first one ends.
C6_Witness ==
    /\ result.op = "GetActiveSubscription"
    /\ result.err = "nil"
    /\ result.sub.val.ID # EmptyID
    /\ result.sub.val.EffectiveStartDate = now
    /\ result.sub.val.EffectiveStartDate < result.sub.val.EffectiveEndDate
    /\ Cardinality({s \in Range(subscriptions) : s.User = result.user}) = 2
    /\ \E a \in Range(subscriptions) :
          /\ a.User = result.user
          /\ a.EffectiveEndDate = now
          /\ a.EffectiveStartDate < now

\* C7: when no subscription of the user is active, GetActiveSubscription
\* returns no subscription value (nil) and no error.
C7_NoneWhenNothingActive ==
    (result.op = "GetActiveSubscription" /\ result.err = "nil"
        /\ ~ \E s \in Range(subscriptions) :
               /\ s.User = result.user
               /\ s.EffectiveStartDate <= now
               /\ (s.EffectiveEndDate = NULL \/ now <= s.EffectiveEndDate))
    => result.sub.isNil

---------------------------------------------------------------------------
(* The usage ledger *)

\* C8: after the usage updates applied one after another to one
\* (subscription, resource type), starting with no usage row, the stored usage
\* is the amount of the last SET (of the first update when there is no SET)
\* plus the sum of the amounts of the ADD updates after it.
C8_LastSetPlusLaterAdds ==
    \A e \in Range(applied) :
        LET seq == SelectSeq(applied,
                      LAMBDA a : /\ a.SubscriptionID = e.SubscriptionID
                                 /\ a.ResourceTypeID = e.ResourceTypeID)
            n == Len(seq)
            sets == {i \in 1..n : seq[i].op = "SET"}
            base == IF sets = {} THEN 1
                    ELSE CHOOSE i \in sets : \A j \in sets : j <= i
            sum[j \in 0..n] ==
                IF j <= base THEN 0 ELSE seq[j].amount + sum[j - 1]
        IN {u \in usages : /\ u.SubscriptionID = e.SubscriptionID
                           /\ u.ResourceTypeID = e.ResourceTypeID}
           = {[SubscriptionID |-> e.SubscriptionID,
               ResourceTypeID |-> e.ResourceTypeID,
               Usage |-> seq[base].amount + sum[n]]}

\* Two updates were applied to the same pair, the second an ADD, and the
\* stored usage is the sum of both amounts.
C8_Witness ==
    /\ Len(applied) = 2
    /\ applied[1].SubscriptionID = applied[2].SubscriptionID
    /\ applied[1].ResourceTypeID = applied[2].ResourceTypeID
    /\ applied[2].op = "ADD"
    /\ \E u \in usages :
          /\ u.SubscriptionID = applied[2].SubscriptionID
          /\ u.ResourceTypeID = applied[2].ResourceTypeID
          /\ u.Usage = applied[1].amount + applied[2].amount

\* C9: a usage update whose operation name is neither ADD nor SET, or whose
\* resource type (name, unit) is unknown, changes no usage row (the handler
\* returns before its fourth database call, CalculateUsage) and is answered
\* by one reply that carries an error: InvalidUpdateOperation for the
\* operation name, UnknownResourceType for the resource type of an update
\* with a valid operation name, unless the user name or the lookup of the
\* active subscription failed first.
C9_RejectedBeforeAnyWrite ==
    [][(result'.op = "AddUsageHandler") =>
          LET r == result'.request
              badOp == r.UpdateType \notin {"ADD", "SET"}
              badRT == <<r.ResourceName, r.ResourceUnit>>
                          \notin {<<"cpu.hours", "cpu hours">>,
                                  <<"data.size", "bytes">>}
          IN (badOp \/ badRT) =>
                /\ usages' = usages
                /\ Len(result'.handles) < 4
                /\ Len(result'.replies) = 1
                /\ result'.replies[1].error # "nil"
                /\ (r.Username # "" /\ result'.replies[1].error # "db") =>
                      result'.replies[1].error =
                         IF badOp THEN "InvalidUpdateOperation"
                         ELSE "UnknownResourceType"]_vars

\* An update with an unknown operation name for a known resource type was
\* rejected while usage rows exist.
C9_Witness ==
    /\ result.op = "AddUsageHandler"
    /\ result.request.UpdateType = "DEL"
    /\ result.request.ResourceName = "data.size"
    /\ result.replies = <<[error |-> "InvalidUpdateOperation"]>>
    /\ usages # {}

\* C10: when all requests handled at once are ADD updates of the same
\* (subscription, resource type), the usage stored once they are all done is
\* the usage before them plus the sum of their amounts.  The usage before
\* them is the amount of the SET that stored it, the first entry of applied.
C10_NoLostAdd ==
    LET adds == SelectSeq(applied, LAMBDA a : a.op = "ADD")
        sum[i \in 0..Len(applied)] ==
            IF i = 0 THEN 0 ELSE applied[i].amount + sum[i - 1]
    IN (/\ \A w \in Workers : pc[w] = "done"
        /\ Len(adds) = NumWorkers)
       => usages = {[SubscriptionID |-> 1, ResourceTypeID |-> "cpu.hours",
                     Usage |-> sum[Len(applied)]]}

---------------------------------------------------------------------------
(* The rows of subscriptions *)

\* C11: every subscription row whose effective_end_date is set has
\* effective_end_date >= effective_start_date, the row that
\* SetActiveSubscription inserts for the EndDate it is given included.
C11_EndNotBeforeStart ==
    \A s \in Range(subscriptions) :
        s.EffectiveEndDate # NULL => s.EffectiveEndDate >= s.EffectiveStartDate

---------------------------------------------------------------------------
(* Quota rows after the creation of their subscription *)

\* C12: the quota rows of a subscription are written only by the
\* SetActiveSubscription call that creates it: once that call has returned,
\* no step, be it a change of the plan's quota defaults or a step of a call
\* that creates another subscription, changes the number or the values of
\* the quota rows of the subscription.
C12_QuotaRowsFrame ==
    [][\A s \in Range(subscriptions) :
          (~ \E w \in Workers : pc[w] = "quotas" /\ req[w].id = s.ID)
          => SelectSeq(quotas', LAMBDA q : q.SubscriptionID = s.ID)
             = SelectSeq(quotas, LAMBDA q : q.SubscriptionID = s.ID)]_vars

\* A second subscription was created after the quota defaults changed: its
\* quota rows differ from the rows of the first, which are still there.
C12_Witness ==
    /\ result.op = "SetActiveSubscription"
    /\ result.id = 2
    /\ result.err = "nil"
    /\ LET first == SelectSeq(quotas, LAMBDA q : q.SubscriptionID = 1)
           second == SelectSeq(quotas, LAMBDA q : q.SubscriptionID = 2)
       IN /\ Len(first) = 2
          /\ Len(second) = 1
          /\ \A i \in DOMAIN first : first[i].Quota # second[1].Quota

\* C16: when the k-th insert into quotas fails, SetActiveSubscription returns
\* the error together with the ID of the new subscription, the subscription
\* row and the quota rows of the first k-1 quota defaults are in the
\* database, and there is no quota row for the k-th and the later defaults.
C16_QuotaInsertFails ==
    (result.op = "SetActiveSubscription" /\ result.failAt > 0
        /\ result.err # "NoEffectiveRate") =>
        LET D == result.plan.QuotaDefaults
            k == result.failAt
            rows == SelectSeq(quotas, LAMBDA q : q.SubscriptionID = result.id)
        IN /\ result.err = "db"
           /\ result.id # EmptyID
           /\ \E i \in DOMAIN subscriptions : subscriptions[i].ID = result.id
           /\ Len(rows) = k - 1
           /\ \A i \in 1..(k - 1) :
                 /\ rows[i].ResourceTypeID = D[i].ResourceType.ID
                 /\ rows[i].Quota =
                       IF D[i].ResourceType.Consumable
                       THEN D[i].QuotaValue * result.opts.Periods
                               * result.opts.Periods
                       ELSE D[i].QuotaValue * result.opts.Periods

\* The second of two inserts into quotas failed: the subscription and one
\* quota row are there.
C16_Witness ==
    /\ result.op = "SetActiveSubscription"
    /\ result.failAt = 2
    /\ result.err = "db"
    /\ Len(result.plan.QuotaDefaults) = 2
    /\ Len(SelectSeq(quotas, LAMBDA q : q.SubscriptionID = result.id)) = 1
    /\ \E i \in DOMAIN subscriptions : subscriptions[i].ID = result.id

---------------------------------------------------------------------------
(* Replies of the usage handlers, and updates without a subscription *)

\* C17: every request handled by GetUsagesHandler or AddUsageHandler gets
\* exactly one reply, on the success path as on every error path.
C17_ExactlyOneReply ==
    result.op \in {"GetUsagesHandler", "AddUsageHandler"} =>
        Len(result.replies) = 1

\* C18: when the user of the request has no active subscription,
\* AddUsageHandler creates or changes no usage row.
C18_NoUpdateWithoutSubscription ==
    [][\A w \in Workers :
          (/\ pc[w] = "write"
           /\ pc'[w] = "done"
           /\ ~ \E s \in Range(subscriptions) :
                  /\ s.User = req[w].request.Username
                  /\ s.EffectiveStartDate <= now
                  /\ (s.EffectiveEndDate = NULL \/ now <= s.EffectiveEndDate))
          => usages' = usages]_vars

---------------------------------------------------------------------------
(* The overage listing *)

\* C14: the overage listing of a subscription has exactly one entry for
\* every resource type that has both a quota row and a usage row of the
\* subscription, the entry carries the quota and the usage of those rows, so
\* that its overage is usage - quota, and an entry whose overage is <= 0 is
\* in the listing like any other.
C14_OverageListing ==
    result.op = "ListOverages" =>
        \A q \in Range(quotas), u \in usages :
            (/\ q.SubscriptionID = result.id
             /\ u.SubscriptionID = result.id
             /\ q.ResourceTypeID = u.ResourceTypeID)
            => LET entries == {o \in result.overages :
                                 o.ResourceType = q.ResourceTypeID}
               IN /\ Cardinality(entries) = 1
                  /\ \A o \in entries :
                        /\ o.UserPlanID = result.id
                        /\ o.QuotaValue = q.Quota
                        /\ o.UsageValue = u.Usage
                        /\ OverageAmount(o) = u.Usage - q.Quota

\* A listing with an entry whose usage exceeds the quota by 1 and an entry
\* whose usage equals the quota.
C14_Witness ==
    /\ result.op = "ListOverages"
    /\ \E o \in result.overages :
          o.QuotaValue > 0 /\ OverageAmount(o) = 1
    /\ \E o \in result.overages :
          o.QuotaValue > 0 /\ OverageAmount(o) = 0

---------------------------------------------------------------------------
(* Add-ons *)

\* C20: a step of AddAddonHandler puts a row into addons only when it is the
\* commit of a request with a name, a description, a default_amount > 0 and
\* a resource type that resolves, and the reply that carries the ID of the
\* new add-on is sent with that step; every call that ends otherwise leaves
\* addons as it was and sends one reply that carries an error.
C20_AddAddon ==
    [][result'.op = "AddAddonHandler" =>
          LET a == result'.request.Addon
              valid == /\ a.Name # ""
                       /\ a.Description # ""
                       /\ a.DefaultAmount > 0
                       /\ \/ a.ResourceType.Name \in Range(ResourceTypeNames)
                          \/ a.ResourceType.Uuid \in ResourceTypeIDs
              new == addons' \ addons
          IN IF result'.stage = "running"
             THEN addons' = addons
             ELSE IF result'.err = "nil"
             THEN /\ valid
                  /\ result'.stage = "done"
                  /\ addons \subseteq addons'
                  /\ Cardinality(new) = 1
                  /\ \A r \in new :
                        /\ r.Name = a.Name
                        /\ r.Description = a.Description
                        /\ r.DefaultAmount = a.DefaultAmount
                        /\ r.ResourceTypeID \in ResourceTypeIDs
                        /\ result'.replies = <<[error |-> "nil", addon |-> r]>>
             ELSE /\ addons' = addons
                  /\ tx'.addons = {}
                  /\ Len(result'.replies) = 1
                  /\ result'.replies[1] = [error |-> result'.err]]_vars

\* The commit of a valid request failed after its insert, and the only row
\* of addons is the one of an earlier request.
C20_Witness ==
    /\ result.op = "AddAddonHandler"
    /\ result.stage = "commit"
    /\ result.err = "db"
    /\ Cardinality(addons) = 1
    /\ \A r \in addons : r.Name = result.request.Addon.Name

\* C15: a successful attach of an add-on to a subscription adds one row of
\* subscription_addons whose amount is the default_amount the add-on has at
\* the time of the attach, and changes no quota row.
C15_AttachDefaultAmount ==
    [][(result'.op = "AddSubscriptionAddonHandler" /\ result'.err = "nil") =>
          LET new == subscriptionAddons' \ subscriptionAddons
          IN /\ subscriptionAddons \subseteq subscriptionAddons'
             /\ Cardinality(new) = 1
             /\ \A r \in new :
                   /\ r.SubscriptionID = result'.request.ParentUuid
                   /\ r.AddonID = result'.request.ChildUuid
                   /\ \E a \in addons :
                         a.ID = r.AddonID /\ r.Amount = a.DefaultAmount
                   /\ result'.replies =
                         <<[error |-> "nil", subscriptionAddons |-> {r}]>>
             /\ quotas' = quotas]_vars

\* The same add-on was attached twice to a subscription that has quota rows,
\* with a change of its default amount in between: the two rows carry
\* different amounts.
C15_Witness ==
    /\ result.op = "AddSubscriptionAddonHandler"
    /\ result.err = "nil"
    /\ \E q \in Range(quotas) : q.SubscriptionID = result.request.ParentUuid
    /\ \E r1, r2 \in subscriptionAddons :
          /\ r1.AddonID = r2.AddonID
          /\ r1.SubscriptionID = r2.SubscriptionID
          /\ r1.Amount # r2.Amount

---------------------------------------------------------------------------
(* Transactions of the handlers *)

\* C13: every handler that changes persisted state (adding usage, adding,
\* updating or deleting an add-on, attaching an add-on) runs every one of its
\* database reads and writes on one transaction.
C13_OneTransaction ==
    (/\ result.op \in {"AddUsageHandler", "AddAddonHandler",
                       "UpdateAddonHandler", "DeleteAddonHandler",
                       "AddSubscriptionAddonHandler"}
     /\ (result.op = "AddAddonHandler" => result.stage # "running"))
    => \A i \in DOMAIN result.handles : result.handles[i] = "tx"

\* C19: the five collections that LoadSubscriptionDetails loads on a
\* transaction (quota defaults, quotas, usages, plan rates, subscription
\* add-ons) are all read through that transaction: they are the tables as
\* they were when the transaction began, whatever other requests committed
\* between the reads.
C19_OneSnapshot ==
    (result.op = "LoadSubscriptionDetails" /\ result.err = "nil"
        /\ result.withTX) =>
        LET sub == result.subscription
            begun == result.begun
        IN /\ sub.Plan.QuotaDefaults =
                 IF sub.Plan.ID = DefaultPlanName THEN begun.planQuotaDefaults
                 ELSE <<>>
           /\ sub.Quotas = SelectSeq(begun.quotas,
                                     LAMBDA q : q.SubscriptionID = sub.ID)
           /\ sub.Usages = {u \in begun.usages : u.SubscriptionID = sub.ID}
           /\ sub.Plan.Rates =
                 IF sub.Plan.ID = DefaultPlanName THEN begun.planRates ELSE {}
           /\ sub.SubscriptionAddons =
                 {a \in begun.subscriptionAddons : a.SubscriptionID = sub.ID}

====
